---- MODULE Spec2Model ----
(***************************************************************************)
(* A model of voiceleading.py: four-part voice leading (notes, chords,     *)
(* nearest-note search, candidate enumeration, progression scoring), the   *)
(* progression builder get_chord_progression, and the first-order Markov   *)
(* sampler next_state with the sampling loop of run.                       *)
(*                                                                         *)
(* A Note is a record [note_name, octave]; a Chord is a record             *)
(* [bass, tenor, alto, sopr, quality]; lists are sequences.  Python lists  *)
(* are 0-based, sequences here are 1-based.  Probabilities are integers in *)
(* thousandths; progression scores are integers in half-hundredths (see    *)
(* evaluate_progression).                                                  *)
(***************************************************************************)
EXTENDS Integers, Sequences, FiniteSets, TLC

\* ------------------------------------------------------------------------
\* Static tables
\* ------------------------------------------------------------------------

PITCH_MAPPING ==
  "C" :> 0 @@ "B#" :> 0 @@ "Dbb" :> 0 @@ "B##" :> 1 @@ "C#" :> 1 @@ "Db" :> 1 @@
  "C##" :> 2 @@ "D" :> 2 @@ "Ebb" :> 2 @@ "D#" :> 3 @@ "Eb" :> 3 @@ "Fbb" :> 3 @@
  "D##" :> 4 @@ "E" :> 4 @@ "Fb" :> 4 @@ "E#" :> 5 @@ "F" :> 5 @@ "Gbb" :> 5 @@
  "E##" :> 6 @@ "F#" :> 6 @@ "Gb" :> 6 @@ "F##" :> 7 @@ "G" :> 7 @@ "Abb" :> 7 @@
  "G#" :> 8 @@ "Ab" :> 8 @@ "G##" :> 9 @@ "A" :> 9 @@ "Bbb" :> 9 @@ "A#" :> 10 @@
  "Bb" :> 10 @@ "Cbb" :> 10 @@ "A##" :> 11 @@ "B" :> 11 @@ "Cb" :> 11

\* The first character of a note name (note_name[0], key[0]).
NOTE_LETTER ==
  "C" :> "C" @@ "B#" :> "B" @@ "Dbb" :> "D" @@ "B##" :> "B" @@ "C#" :> "C" @@ "Db" :> "D" @@
  "C##" :> "C" @@ "D" :> "D" @@ "Ebb" :> "E" @@ "D#" :> "D" @@ "Eb" :> "E" @@ "Fbb" :> "F" @@
  "D##" :> "D" @@ "E" :> "E" @@ "Fb" :> "F" @@ "E#" :> "E" @@ "F" :> "F" @@ "Gbb" :> "G" @@
  "E##" :> "E" @@ "F#" :> "F" @@ "Gb" :> "G" @@ "F##" :> "F" @@ "G" :> "G" @@ "Abb" :> "A" @@
  "G#" :> "G" @@ "Ab" :> "A" @@ "G##" :> "G" @@ "A" :> "A" @@ "Bbb" :> "B" @@ "A#" :> "A" @@
  "Bb" :> "B" @@ "Cbb" :> "C" @@ "A##" :> "A" @@ "B" :> "B" @@ "Cb" :> "C"

SCALE_NOTES ==
  <<"A", "B", "C", "D", "E", "F", "G", "A", "B", "C", "D", "E", "F", "G",
    "A", "B", "C", "D", "E", "F", "G", "A", "B", "C", "D", "E", "F", "G",
    "A", "B", "C", "D", "E", "F", "G">>

\* SCALE_NOTES.find(letter): the 0-based index of the first occurrence.
ScaleFind(letter) ==
  (CHOOSE i \in 1..Len(SCALE_NOTES) :
     /\ SCALE_NOTES[i] = letter
     /\ \A j \in 1..(i - 1) : SCALE_NOTES[j] # letter) - 1

\* SCALE_NOTES[index] for a 0-based index.
ScaleAt(index) == SCALE_NOTES[index + 1]

REGISTER_MAX == 9

REGISTER_MIN == 0

CHORD_QUALITY_TO_STRUCTURE ==
  "Maj" :> 47 @@ "Maj6" :> 38 @@ "Maj64" :> 59 @@ "Min" :> 37 @@
  "Min6" :> 49 @@ "Min64" :> 58 @@ "Aug" :> 48 @@ "Aug6" :> 48 @@
  "Aug64" :> 48 @@ "Dim" :> 36 @@ "Dim6" :> 39 @@ "Dim64" :> 69 @@
  "Dom7" :> 4710 @@ "Dom65" :> 368 @@ "Dom43" :> 359 @@ "Dom42" :> 269

CHORD_QUALITY_TO_INVERSION ==
  "Maj" :> 0 @@ "Maj6" :> 1 @@ "Maj64" :> 2 @@ "Min" :> 0 @@
  "Min6" :> 1 @@ "Min64" :> 2 @@ "Aug" :> 0 @@ "Aug6" :> 1 @@
  "Aug64" :> 2 @@ "Dim" :> 0 @@ "Dim6" :> 1 @@ "Dim64" :> 2 @@
  "Dom7" :> 0 @@ "Dom65" :> 1 @@ "Dom43" :> 2 @@ "Dom42" :> 3

ROMAN_NUMERAL_TO_QUALITY ==
  "I" :> <<"Maj", 0>> @@ "I6" :> <<"Maj6", 4>> @@ "I64" :> <<"Maj64", 7>> @@
  "i" :> <<"Min", 0>> @@ "i6" :> <<"Min6", 3>> @@ "i64" :> <<"Min64", 7>> @@
  "ii" :> <<"Min", 2>> @@ "ii6" :> <<"Min6", 5>> @@ "ii64" :> <<"Min64", 9>> @@
  "iidim" :> <<"Dim", 2>> @@ "iidim6" :> <<"Dim6", 5>> @@ "iidim64" :> <<"Dim64", 8>> @@
  "III" :> <<"Maj", 3>> @@ "III6" :> <<"Maj6", 7>> @@ "III64" :> <<"Maj64", 10>> @@
  "iii" :> <<"Min", 4>> @@ "iii6" :> <<"Min6", 7>> @@ "iii64" :> <<"Min64", 11>> @@
  "IV" :> <<"Maj", 5>> @@ "IV6" :> <<"Maj6", 9>> @@ "IV64" :> <<"Maj64", 0>> @@
  "iv" :> <<"Min", 5>> @@ "iv6" :> <<"Min6", 8>> @@ "iv64" :> <<"Min64", 0>> @@
  "V" :> <<"Maj", 7>> @@ "V6" :> <<"Maj6", 11>> @@ "V64" :> <<"Maj64", 2>> @@
  "V7" :> <<"Dom7", 7>> @@ "V65" :> <<"Dom65", 11>> @@ "V43" :> <<"Dom43", 2>> @@
  "V42" :> <<"Dom42", 5>> @@ "VI" :> <<"Maj", 8>> @@ "VI6" :> <<"Maj6", 0>> @@
  "VI64" :> <<"Maj64", 3>> @@ "vi" :> <<"Min", 9>> @@ "vi6" :> <<"Min6", 0>> @@
  "vi64" :> <<"Min64", 4>> @@ "viidim" :> <<"Dim", 11>> @@ "viidim6" :> <<"Dim6", 2>> @@
  "viidim64" :> <<"Dim64", 5>>

NOTE_NUM_TO_NUM_UP ==
  0 :> 0 @@ 2 :> 1 @@ 3 :> 2 @@ 4 :> 2 @@ 5 :> 3 @@
  7 :> 4 @@ 8 :> 5 @@ 9 :> 5 @@ 10 :> 6 @@ 11 :> 6

\* float("inf"): larger than every interval and every score.
INF == 1000000

\* ------------------------------------------------------------------------
\* Note
\* ------------------------------------------------------------------------

\* _check_valid_note raises.
check_valid_note_raises(note_name) == note_name \notin DOMAIN PITCH_MAPPING

\* _check_valid_octave raises.
check_valid_octave_raises(octave) ==
  (octave < REGISTER_MIN) \/ (octave > REGISTER_MAX)

\* Note.__init__ raises.
NoteRaises(note_name, octave) ==
  check_valid_note_raises(note_name) \/ check_valid_octave_raises(octave)

\* Note.__init__ (when it does not raise).
Note(note_name, octave) == [note_name |-> note_name, octave |-> octave]

get_note_number(note) == PITCH_MAPPING[note.note_name]

get_midi_number(note) == get_note_number(note) + ((note.octave + 1) * 12)

\* Note.__eq__: identical in octave and name (E-flat is not D-sharp).
NoteEq(note, other_note) ==
  IF note.octave # other_note.octave THEN FALSE
  ELSE note.note_name = other_note.note_name

\* Note.__ne__
NoteNe(note, other_note) == ~NoteEq(note, other_note)

\* Note.__lt__, __gt__, __le__, __ge__: enharmonic, by MIDI number.
NoteLt(note, other_note) == get_midi_number(note) < get_midi_number(other_note)

NoteGt(note, other_note) == get_midi_number(note) > get_midi_number(other_note)

NoteLe(note, other_note) == get_midi_number(note) <= get_midi_number(other_note)

NoteGe(note, other_note) == get_midi_number(note) >= get_midi_number(other_note)

BASS_REGISTER_MIN == Note("D", 2)

BASS_REGISTER_MAX == Note("C", 4)

TENOR_REGISTER_MIN == Note("D", 3)

TENOR_REGISTER_MAX == Note("F", 4)

ALTO_REGISTER_MIN == Note("A", 3)

ALTO_REGISTER_MAX == Note("D", 5)

SOPR_REGISTER_MIN == Note("D", 4)

SOPR_REGISTER_MAX == Note("G", 5)

\* ------------------------------------------------------------------------
\* Chord
\* ------------------------------------------------------------------------

\* _check_notes_in_range does not raise (notes = <<bass, tenor, alto, sopr>>).
check_notes_in_range(notes) ==
  /\ ~(NoteLt(notes[1], BASS_REGISTER_MIN) \/ NoteGt(notes[1], BASS_REGISTER_MAX))
  /\ ~(NoteLt(notes[2], TENOR_REGISTER_MIN) \/ NoteGt(notes[2], TENOR_REGISTER_MAX))
  /\ ~(NoteLt(notes[3], ALTO_REGISTER_MIN) \/ NoteGt(notes[3], ALTO_REGISTER_MAX))
  /\ ~(NoteLt(notes[4], SOPR_REGISTER_MIN) \/ NoteGt(notes[4], SOPR_REGISTER_MAX))

\* lst1.sort() for a list of distinct numbers (get_chord_number never puts
\* the same number in lst1 twice).
SortAsc(s) ==
  LET elems == {s[i] : i \in 1..Len(s)}
  IN  [k \in 1..Len(s) |->
         CHOOSE x \in elems : Cardinality({y \in elems : y < x}) = k - 1]

\* int("".join(str(item) for item in lst)): decimal concatenation, so that
\* 10 and 11 take two digits.  int("") raises ValueError: modelled as -1,
\* which matches no table entry.
RECURSIVE JoinDigits(_, _, _)
JoinDigits(lst, i, acc) ==
  IF i > Len(lst) THEN acc
  ELSE JoinDigits(lst, i + 1,
                  (IF lst[i] < 10 THEN acc * 10 ELSE acc * 100) + lst[i])

get_chord_number(notes) ==
  LET root  == get_note_number(notes[1])
      note1 == (get_note_number(notes[2]) - root) % 12
      note2 == (get_note_number(notes[3]) - root) % 12
      note3 == (get_note_number(notes[4]) - root) % 12
      l1 == IF note1 # 0 THEN <<note1>> ELSE <<>>
      l2 == IF (\A i \in 1..Len(l1) : l1[i] # note2) /\ note2 # 0
            THEN Append(l1, note2) ELSE l1
      l3 == IF (\A i \in 1..Len(l2) : l2[i] # note3) /\ note3 # 0
            THEN Append(l2, note3) ELSE l2
      lst1 == SortAsc(l3)
  IN  IF Len(lst1) = 0 THEN -1 ELSE JoinDigits(lst1, 1, 0)

\* A check of the quality alone, which accepts any notes.
check_chord_matches_notes_quality_only(notes, quality) ==
  quality \in DOMAIN CHORD_QUALITY_TO_STRUCTURE

\* _check_chord_matches_notes does not raise.
check_chord_matches_notes(notes, quality) ==
  /\ quality \in DOMAIN CHORD_QUALITY_TO_STRUCTURE
  /\ CHORD_QUALITY_TO_STRUCTURE[quality] = get_chord_number(notes)

\* Chord.__init__ does not raise.
ChordOK(notes, quality) ==
  /\ check_notes_in_range(notes)
  /\ check_chord_matches_notes(notes, quality)

\* Chord.__init__ (when it does not raise).
Chord(notes, quality) ==
  [bass |-> notes[1], tenor |-> notes[2], alto |-> notes[3],
   sopr |-> notes[4], quality |-> quality]

\* Chord.get_notes
get_notes(chord) == <<chord.bass, chord.tenor, chord.alto, chord.sopr>>

\* ------------------------------------------------------------------------
\* Chord members, intervals, nearest note
\* ------------------------------------------------------------------------

\* The digits of str(CHORD_QUALITY_TO_STRUCTURE[quality]) for the two- and
\* three-digit structures; 4710 is special-cased by the caller.
StructureDigits(n) ==
  IF n < 100 THEN <<n \div 10, n % 10>>
  ELSE <<n \div 100, (n \div 10) % 10, n % 10>>

\* The names of PITCH_MAPPING that start with the letter and have the value;
\* no two names share both, so the set has at most one element.
Spellings(letter, value) ==
  {k \in DOMAIN PITCH_MAPPING :
     NOTE_LETTER[k] = letter /\ PITCH_MAPPING[k] = value}

RECURSIVE ResultNotes(_, _, _)
ResultNotes(notes, note_names, count) ==
  IF count > Len(notes) THEN <<>>
  ELSE LET found == Spellings(note_names[count], notes[count])
       IN  (IF found = {} THEN <<>> ELSE <<CHOOSE k \in found : TRUE>>)
             \o ResultNotes(notes, note_names, count + 1)

get_chord_notes(quality, root) ==
  LET chord_number == CHORD_QUALITY_TO_STRUCTURE[quality]
      root_number  == get_note_number(root)
      notes ==
        IF chord_number >= 1000
        THEN <<root_number, (4 + root_number) % 12, (7 + root_number) % 12,
               (10 + root_number) % 12>>
        ELSE <<root_number>> \o
             [i \in 1..Len(StructureDigits(chord_number)) |->
                (StructureDigits(chord_number)[i] + root_number) % 12]
      index == ScaleFind(NOTE_LETTER[root.note_name])
      inv   == CHORD_QUALITY_TO_INVERSION[quality]
      offsets ==
        IF Len(notes) = 3
        THEN (IF inv = 0 THEN <<2, 4>>
              ELSE IF inv = 1 THEN <<2, 5>>
              ELSE <<3, 5>>)
        ELSE (IF inv = 0 THEN <<2, 4, 6>>
              ELSE IF inv = 1 THEN <<2, 4, 5>>
              ELSE IF inv = 2 THEN <<2, 3, 5>>
              ELSE <<1, 3, 5>>)
      note_names ==
        <<NOTE_LETTER[root.note_name]>> \o
        [i \in 1..Len(offsets) |-> ScaleAt(index + offsets[i])]
  IN  ResultNotes(notes, note_names, 1)

get_interval(note1, note2) ==
  IF NoteGe(note1, note2) /\ NoteLe(note1, note2) THEN 0
  ELSE LET high_note_pitch == IF NoteGt(note1, note2)
                              THEN get_note_number(note1)
                              ELSE get_note_number(note2)
           low_note_pitch  == IF NoteGt(note1, note2)
                              THEN get_note_number(note2)
                              ELSE get_note_number(note1)
       IN  IF high_note_pitch > low_note_pitch
           THEN high_note_pitch - low_note_pitch
           ELSE (high_note_pitch - low_note_pitch) % 12

\* A local name that was never assigned (reading it raises
\* UnboundLocalError).
UNBOUND_NOTE == [note_name |-> "", octave |-> -1]

\* poss_notes of get_nearest_note: the name at octave-1, octave, octave+1.
PossNotes(current_note, next_note_name) ==
  LET current_octave == current_note.octave
  IN  (IF current_octave > 0
       THEN <<Note(next_note_name, current_octave - 1)>> ELSE <<>>)
      \o <<Note(next_note_name, current_octave)>>
      \o (IF current_octave < 9
          THEN <<Note(next_note_name, current_octave + 1)>> ELSE <<>>)

\* The loop of get_nearest_note.  min_int is never assigned in the loop, so
\* it stays float("inf") at every comparison.
RECURSIVE NearestLoop(_, _, _, _, _, _, _)
NearestLoop(poss_notes, i, current_note, min_note, max_note, min_int, next_note) ==
  IF i > Len(poss_notes) THEN next_note
  ELSE LET note == poss_notes[i]
       IN  IF NoteGe(note, min_note) /\ NoteLe(note, max_note)
              /\ get_interval(note, current_note) <= min_int
           THEN NearestLoop(poss_notes, i + 1, current_note, min_note,
                            max_note, min_int, note)
           ELSE NearestLoop(poss_notes, i + 1, current_note, min_note,
                            max_note, min_int, next_note)

\* get_nearest_note; UNBOUND_NOTE when the call raises (an invalid name, or
\* no candidate in range so that next_note is unbound at the return).
get_nearest_note(current_note, next_note_name, min_note, max_note) ==
  IF check_valid_note_raises(next_note_name) THEN UNBOUND_NOTE
  ELSE NearestLoop(PossNotes(current_note, next_note_name), 1, current_note,
                   min_note, max_note, INF, UNBOUND_NOTE)

\* ------------------------------------------------------------------------
\* Progression evaluation
\* ------------------------------------------------------------------------

has_parallels(chord1, chord2) ==
  LET notes1 == get_notes(chord1)
      notes2 == get_notes(chord2)
  IN  \E index_a \in 1..4 : \E index_b \in 1..4 :
        /\ NoteNe(notes1[index_a], notes1[index_b])
        /\ get_interval(notes1[index_a], notes1[index_b])
             = get_interval(notes2[index_a], notes2[index_b])
        /\ \/ get_interval(notes1[index_a], notes1[index_b]) = 7
           \/ get_interval(notes1[index_a], notes1[index_b]) = 0

has_voice_crossing(chord) ==
  \/ NoteGt(chord.bass, chord.tenor)
  \/ NoteGt(chord.tenor, chord.alto)
  \/ NoteGt(chord.alto, chord.sopr)

has_octave_gap(chord) ==
  LET tenor_num == get_midi_number(chord.tenor)
      alto_num  == get_midi_number(chord.alto)
      sopr_num  == get_midi_number(chord.sopr)
  IN  ((sopr_num - alto_num) > 12) \/ ((alto_num - tenor_num) > 12)

has_doubled_leading_tone(chord, key) ==
  LET key_num == PITCH_MAPPING[key]
      leading_tone_num == (key_num - 1) % 12
      chord_notes == get_notes(chord)
      count == Cardinality({i \in 1..4 :
                 get_note_number(chord_notes[i]) = leading_tone_num})
  IN  count > 1

evaluate_leaps(chord1, chord2) ==
  get_interval(chord1.tenor, chord2.tenor)
  + get_interval(chord1.alto, chord2.alto)
  + get_interval(chord1.sopr, chord2.sopr)

\* The double-precision sum 0.0 + leaps/100.0 (+ .1) (+ .2) (+ .5) (+ 1) of
\* evaluate_progression is not always the double nearest to the exact sum:
\* for these <<leaps, crossing, gap, leading tone, parallels>> it is the
\* next double above the one that other combinations with the same exact
\* sum produce (0.2 + 0.1 = 0.30000000000000004 > 0.3 = 30/100.0).  Sums
\* that differ exactly differ by at least 0.01 and keep their order.
FLOAT_ROUNDS_UP ==
  { <<0, 1, 1, 0, 0>>, <<1, 0, 1, 0, 0>>, <<2, 1, 0, 0, 0>>, <<4, 0, 1, 0, 0>>,
    <<4, 1, 1, 0, 0>>, <<4, 1, 1, 0, 1>>, <<4, 1, 1, 1, 0>>, <<4, 1, 1, 1, 1>>,
    <<5, 1, 0, 0, 0>>, <<5, 1, 1, 0, 0>>, <<5, 1, 1, 1, 0>>, <<9, 0, 1, 0, 0>>,
    <<10, 0, 1, 0, 0>>, <<11, 1, 0, 0, 0>>, <<14, 0, 1, 0, 0>>, <<14, 0, 1, 0, 1>>,
    <<14, 0, 1, 1, 0>>, <<14, 0, 1, 1, 1>>, <<14, 1, 0, 0, 0>>, <<14, 1, 1, 0, 0>>,
    <<14, 1, 1, 1, 0>>, <<19, 1, 0, 0, 0>>, <<19, 1, 1, 0, 0>>, <<20, 1, 0, 0, 0>>,
    <<28, 1, 1, 0, 0>>, <<29, 1, 1, 0, 0>>, <<29, 1, 1, 0, 1>>, <<30, 1, 1, 0, 0>>,
    <<31, 1, 1, 0, 0>>, <<31, 1, 1, 0, 1>>, <<32, 1, 1, 0, 0>>, <<33, 1, 1, 0, 0>>,
    <<33, 1, 1, 0, 1>>, <<33, 1, 1, 1, 0>> }

\* evaluate_progression, as an integer that orders exactly as the float
\* does: twice the exact sum in hundredths, plus one when the float sum is
\* the upper of the two doubles the exact sum is computed as.
evaluate_progression(chord1, chord2, key) ==
  LET leaps     == evaluate_leaps(chord1, chord2)
      crossing  == IF has_voice_crossing(chord2) THEN 1 ELSE 0
      gap       == IF has_octave_gap(chord2) THEN 1 ELSE 0
      leading   == IF has_doubled_leading_tone(chord2, key) THEN 1 ELSE 0
      parallels == IF has_parallels(chord1, chord2) THEN 1 ELSE 0
      hundredths ==
        leaps + 10 * crossing + 20 * gap + 50 * leading + 100 * parallels
  IN  2 * hundredths
      + (IF <<leaps, crossing, gap, leading, parallels>> \in FLOAT_ROUNDS_UP
         THEN 1 ELSE 0)

\* ------------------------------------------------------------------------
\* Next chord
\* ------------------------------------------------------------------------

\* A chord value for results that carry no chord.
NO_CHORD ==
  [bass |-> UNBOUND_NOTE, tenor |-> UNBOUND_NOTE, alto |-> UNBOUND_NOTE,
   sopr |-> UNBOUND_NOTE, quality |-> ""]

\* A remove that leaves the list as it is.
RemoveNothing(lst, x) == lst

\* list.remove(x): drops the first occurrence of x.
RECURSIVE Remove(_, _)
Remove(lst, x) ==
  IF lst = <<>> THEN <<>>
  ELSE IF Head(lst) = x THEN Tail(lst)
  ELSE <<Head(lst)>> \o Remove(Tail(lst), x)

\* list(itertools.permutations(lst)) for a list of two or three items, in
\* the order itertools yields them.
itertools_permutations(lst) ==
  IF Len(lst) = 2
  THEN << <<lst[1], lst[2]>>, <<lst[2], lst[1]>> >>
  ELSE << <<lst[1], lst[2], lst[3]>>, <<lst[1], lst[3], lst[2]>>,
          <<lst[2], lst[1], lst[3]>>, <<lst[2], lst[3], lst[1]>>,
          <<lst[3], lst[1], lst[2]>>, <<lst[3], lst[2], lst[1]>> >>

\* Positions that leave out the last one.
INSERT_POSITIONS_SHORT == <<0, 1>>

\* The positions num of poss.insert(num, note).
INSERT_POSITIONS == <<0, 1, 2>>

\* poss = list(perm); poss.insert(num, note) for a two-item perm.
Insert(perm, num, note) ==
  IF num = 0 THEN <<note, perm[1], perm[2]>>
  ELSE IF num = 1 THEN <<perm[1], note, perm[2]>>
  ELSE <<perm[1], perm[2], note>>

\* all_perms of the triad branch: for note in chord_notes, for perm in
\* permutations(needed_chord_notes), for num in [0, 1, 2].
RECURSIVE TriadPerms(_, _, _, _, _)
TriadPerms(chord_notes, perms, n, p, k) ==
  IF n > Len(chord_notes) THEN <<>>
  ELSE IF p > Len(perms) THEN TriadPerms(chord_notes, perms, n + 1, 1, 1)
  ELSE IF k > Len(INSERT_POSITIONS) THEN TriadPerms(chord_notes, perms, n, p + 1, 1)
  ELSE <<Insert(perms[p], INSERT_POSITIONS[k], chord_notes[n])>>
       \o TriadPerms(chord_notes, perms, n, p, k + 1)

\* all_perms as get_next_chord builds it; empty when neither branch runs.
AllPerms(chord_notes, needed_chord_notes) ==
  IF Len(needed_chord_notes) = 3 THEN itertools_permutations(needed_chord_notes)
  ELSE IF Len(needed_chord_notes) = 2
  THEN TriadPerms(chord_notes, itertools_permutations(needed_chord_notes), 1, 1, 1)
  ELSE <<>>

\* The four notes handed to Chord(...) for one entry of all_perms.
CandidateNotes(current_chord, next_bass, needed_notes) ==
  <<next_bass,
    get_nearest_note(current_chord.tenor, needed_notes[1],
                     TENOR_REGISTER_MIN, TENOR_REGISTER_MAX),
    get_nearest_note(current_chord.alto, needed_notes[2],
                     ALTO_REGISTER_MIN, ALTO_REGISTER_MAX),
    get_nearest_note(current_chord.sopr, needed_notes[3],
                     SOPR_REGISTER_MIN, SOPR_REGISTER_MAX)>>

\* Building the candidate for one entry of all_perms does not raise.
CandidateOK(current_chord, next_bass, needed_notes, next_quality) ==
  LET notes == CandidateNotes(current_chord, next_bass, needed_notes)
  IN  /\ \A v \in 2..4 : notes[v] # UNBOUND_NOTE
      /\ ChordOK(notes, next_quality)

\* A loop that keeps the last of the lowest evaluations (<= for <).
RECURSIVE MinIndexLoopLast(_, _, _, _)
MinIndexLoopLast(evaluations, index, min_eval, min_index) ==
  IF index > Len(evaluations) THEN min_index
  ELSE IF evaluations[index] <= min_eval
       THEN MinIndexLoopLast(evaluations, index + 1, evaluations[index], index)
       ELSE MinIndexLoopLast(evaluations, index + 1, min_eval, min_index)

\* The loop that finds the index of the lowest evaluation; the index is
\* 1-based and 0 stands for min_index never assigned.
RECURSIVE MinIndexLoop(_, _, _, _)
MinIndexLoop(evaluations, index, min_eval, min_index) ==
  IF index > Len(evaluations) THEN min_index
  ELSE IF evaluations[index] < min_eval
       THEN MinIndexLoop(evaluations, index + 1, evaluations[index], index)
       ELSE MinIndexLoop(evaluations, index + 1, min_eval, min_index)

\* The record of a get_next_chord call that raised before all_perms.
NextChordRaisedEarly ==
  [raised |-> TRUE, needed_chord_notes |-> <<>>, all_perms |-> <<>>,
   poss_chords |-> <<>>, evaluations |-> <<>>, min_index |-> 0]

\* The loop that appends Chord(next_bass, nearest tenor, nearest alto,
\* nearest soprano, next_quality) to poss_chords for each entry of
\* all_perms, from entry i on; <<NO_CHORD>> is appended in place of the
\* chords from the first entry on whose construction raises.
RECURSIVE PossChordsLoop(_, _, _, _, _)
PossChordsLoop(current_chord, next_bass, all_perms, next_quality, i) ==
  IF i > Len(all_perms) THEN <<>>
  ELSE IF ~CandidateOK(current_chord, next_bass, all_perms[i], next_quality)
       THEN <<NO_CHORD>>
       ELSE <<Chord(CandidateNotes(current_chord, next_bass, all_perms[i]),
                    next_quality)>>
            \o PossChordsLoop(current_chord, next_bass, all_perms,
                              next_quality, i + 1)

\* The loop that appends evaluate_progression(current_chord, chord, key) to
\* evaluations for each chord of poss_chords, from entry i on.
RECURSIVE EvaluationsLoop(_, _, _, _)
EvaluationsLoop(current_chord, poss_chords, key, i) ==
  IF i > Len(poss_chords) THEN <<>>
  ELSE <<evaluate_progression(current_chord, poss_chords[i], key)>>
       \o EvaluationsLoop(current_chord, poss_chords, key, i + 1)

\* The locals of get_next_chord from the candidate list on.
NextChordResult(current_chord, key, needed_chord_notes, all_perms, poss_chords) ==
  IF poss_chords # <<>> /\ poss_chords[Len(poss_chords)] = NO_CHORD
  THEN [raised |-> TRUE, needed_chord_notes |-> needed_chord_notes,
        all_perms |-> all_perms, poss_chords |-> <<>>,
        evaluations |-> <<>>, min_index |-> 0]
  ELSE LET evaluations == EvaluationsLoop(current_chord, poss_chords, key, 1)
           min_index   == MinIndexLoop(evaluations, 1, INF, 0)
       IN  [raised |-> (min_index = 0), needed_chord_notes |-> needed_chord_notes,
            all_perms |-> all_perms, poss_chords |-> poss_chords,
            evaluations |-> evaluations, min_index |-> min_index]

\* get_next_chord: the locals of the call and whether it raised; the chord
\* returned is poss_chords[min_index].
get_next_chord(current_chord, next_quality, next_root_name, key) ==
  LET next_bass == get_nearest_note(current_chord.bass, next_root_name,
                                    BASS_REGISTER_MIN, BASS_REGISTER_MAX)
  IN
  IF next_bass = UNBOUND_NOTE THEN NextChordRaisedEarly
  ELSE
  LET chord_notes == get_chord_notes(next_quality, next_bass)
      needed_chord_notes == Remove(chord_notes, next_bass.note_name)
      all_perms == AllPerms(chord_notes, needed_chord_notes)
  IN  NextChordResult(current_chord, key, needed_chord_notes, all_perms,
        PossChordsLoop(current_chord, next_bass, all_perms, next_quality, 1))

\* ------------------------------------------------------------------------
\* Progression builder
\* ------------------------------------------------------------------------

\* The value None (the start and end marker of the Markov model, and what
\* get_root_name returns when no spelling matches).
NONE == "None"

\* get_first_chord: [raised, chord].
get_first_chord(key, is_major) ==
  LET qual == IF is_major THEN "Maj" ELSE "Min"
  IN
  IF NoteRaises(key, 2) THEN [raised |-> TRUE, chord |-> NO_CHORD]
  ELSE
  LET chord_notes == get_chord_notes(qual, Note(key, 2))
  IN
  IF Len(chord_notes) < 3 THEN [raised |-> TRUE, chord |-> NO_CHORD]
  ELSE
  LET bass  == Note(key, 3)
      tenor == get_nearest_note(Note("Bb", 3), chord_notes[3],
                                TENOR_REGISTER_MIN, TENOR_REGISTER_MAX)
      alto  == get_nearest_note(Note("F", 4), chord_notes[2],
                                ALTO_REGISTER_MIN, ALTO_REGISTER_MAX)
      sopr  == get_nearest_note(Note("B", 4), chord_notes[1],
                                SOPR_REGISTER_MIN, SOPR_REGISTER_MAX)
      notes == <<bass, tenor, alto, sopr>>
  IN
  IF (\E v \in 2..4 : notes[v] = UNBOUND_NOTE) \/ ~ChordOK(notes, qual)
  THEN [raised |-> TRUE, chord |-> NO_CHORD]
  ELSE [raised |-> FALSE, chord |-> Chord(notes, qual)]

\* get_root_name; NONE when the loop ends without a return.
get_root_name(roman_numeral, key) ==
  LET note_num      == ROMAN_NUMERAL_TO_QUALITY[roman_numeral][2]
      note_names_up == NOTE_NUM_TO_NUM_UP[note_num]
      note_letter   == ScaleAt(ScaleFind(NOTE_LETTER[key]) + note_names_up)
      key_num       == PITCH_MAPPING[key]
      found         == Spellings(note_letter, (key_num + note_num) % 12)
  IN  IF found = {} THEN NONE ELSE CHOOSE keya \in found : TRUE

\* One iteration of the loop of get_chord_progression for numeral: the
\* get_next_chord record, raised also when the numeral is not in
\* ROMAN_NUMERAL_TO_QUALITY (KeyError).
ProgressionStep(last_chord, numeral, key) ==
  IF numeral \notin DOMAIN ROMAN_NUMERAL_TO_QUALITY THEN NextChordRaisedEarly
  ELSE get_next_chord(last_chord, ROMAN_NUMERAL_TO_QUALITY[numeral][1],
                      get_root_name(numeral, key), key)

\* A slice that keeps every label (not what the loop reads).
LoopNumeralsFromFirst(progression) == progression

\* progression[1:], the labels the loop of get_chord_progression reads.
LoopNumerals(progression) == SubSeq(progression, 2, Len(progression))

\* The loop of get_chord_progression over the numerals, from the idx-th
\* (1-based) on: [raised, chords].
RECURSIVE ProgressionLoop(_, _, _, _)
ProgressionLoop(numerals, idx, chords, key) ==
  IF idx > Len(numerals) THEN [raised |-> FALSE, chords |-> chords]
  ELSE LET step == ProgressionStep(chords[Len(chords)], numerals[idx], key)
       IN  IF step.raised THEN [raised |-> TRUE, chords |-> <<>>]
           ELSE ProgressionLoop(numerals, idx + 1,
                  Append(chords, step.poss_chords[step.min_index]), key)

\* get_chord_progression: [raised, chords].
get_chord_progression(progression, key, is_major) ==
  LET first == get_first_chord(key, is_major)
  IN  IF first.raised THEN [raised |-> TRUE, chords |-> <<>>]
      ELSE ProgressionLoop(LoopNumerals(progression), 1, <<first.chord>>, key)

\* ------------------------------------------------------------------------
\* Markov sampler
\* ------------------------------------------------------------------------

\* A transition table maps a source to the list of its (successor, share)
\* pairs; shares are in thousandths, as the source writes them (.05 is 50).
\* The rows of this table are in the order of the dict displays.
MAJOR_MARKOV_PROGRESSION_MODEL ==
  NONE :> <<<<"I", 1000>>>> @@
  "I" :> <<<<"V", 50>>, <<"IV", 150>>, <<"ii", 50>>, <<"ii6", 100>>,
           <<"viidim6", 150>>, <<"V42", 150>>, <<"iii", 25>>, <<"IV6", 75>>,
           <<NONE, 250>>>> @@
  "I6" :> <<<<"V", 25>>, <<"IV", 200>>, <<"ii", 200>>, <<"ii6", 100>>,
            <<"IV6", 50>>, <<"V7", 25>>, <<"V6", 50>>, <<"vi", 150>>,
            <<"iii", 150>>, <<"iii6", 50>>>> @@
  "I64" :> <<<<"V", 300>>, <<"V7", 500>>, <<"vi", 150>>, <<"IV6", 50>>>> @@
  "ii" :> <<<<"iii", 50>>, <<"iii6", 100>>, <<"IV", 300>>, <<"V", 50>>,
            <<"V7", 50>>, <<"V6", 50>>, <<"V65", 50>>, <<"V43", 50>>,
            <<"V42", 50>>, <<"vi", 50>>, <<"viidim", 50>>, <<"viidim6", 50>>,
            <<"I64", 100>>>> @@
  "ii6" :> <<<<"iii", 50>>, <<"iii6", 100>>, <<"IV", 100>>, <<"V", 150>>,
             <<"V7", 150>>, <<"V6", 50>>, <<"V65", 50>>, <<"V43", 50>>,
             <<"V42", 50>>, <<"vi", 50>>, <<"viidim", 50>>, <<"viidim6", 50>>,
             <<"I64", 100>>>> @@
  "iii" :> <<<<"vi", 600>>, <<"IV6", 100>>, <<"IV", 100>>, <<"ii", 100>>,
             <<"ii6", 100>>>> @@
  "iii6" :> <<<<"vi", 400>>, <<"vi6", 400>>, <<"IV6", 100>>, <<"ii", 100>>>> @@
  "IV" :> <<<<"I", 200>>, <<"V", 300>>, <<"V7", 300>>, <<"I64", 200>>>> @@
  "IV6" :> <<<<"I", 50>>, <<"V", 350>>, <<"I6", 600>>>> @@
  "V" :> <<<<"I", 500>>, <<"vi", 400>>, <<"IV6", 100>>>> @@
  "V6" :> <<<<"I6", 600>>, <<"I", 200>>, <<"iii", 200>>>> @@
  "V7" :> <<<<"I", 500>>, <<"vi", 400>>, <<"IV6", 100>>>> @@
  "V65" :> <<<<"I", 300>>, <<"vi", 650>>, <<"IV6", 50>>>> @@
  "V43" :> <<<<"I6", 400>>, <<"iii", 300>>, <<"vi", 400>>>> @@
  "V42" :> <<<<"I6", 600>>, <<"I", 100>>, <<"V", 300>>>> @@
  "vi" :> <<<<"ii", 500>>, <<"ii6", 300>>, <<"IV", 200>>>> @@
  "vi6" :> <<<<"ii", 300>>, <<"ii6", 400>>, <<"IV", 300>>>> @@
  "viidim" :> <<<<"iii", 400>>, <<"I6", 200>>, <<"V", 400>>>> @@
  "viidim6" :> <<<<"I", 300>>, <<"I6", 600>>, <<"iii6", 100>>>>

\* A table whose rows leave part of the unit uncovered: the start row
\* covers 0.9, "I" covers 0.75 and "V" covers 0.9.
DEFICIENT_MODEL ==
  NONE :> <<<<"I", 900>>>> @@
  "I" :> <<<<"V", 500>>, <<NONE, 250>>>> @@
  "V" :> <<<<"I", 900>>>>

\* The order in which .items() yields the keys of each row is the order of
\* the dict's slots, which the language leaves to the implementation.  This
\* is the order of CPython 2.7 with its string hash of 64 bits (the slot of
\* None in the row of "I" depends on the address of None; one of its slots
\* is taken).
ITEMS_ORDER ==
  NONE :> <<"I">> @@
  "I" :> <<"ii", NONE, "IV6", "ii6", "V42", "V", "viidim6", "iii", "IV">> @@
  "I6" :> <<"ii", "IV6", "ii6", "V6", "V", "iii6", "vi", "V7", "iii", "IV">> @@
  "I64" :> <<"vi", "IV6", "V7", "V">> @@
  "ii" :> <<"vi", "IV", "V43", "V42", "V", "iii", "viidim6", "V65", "iii6",
            "I64", "V6", "V7", "viidim">> @@
  "ii6" :> <<"vi", "IV", "V43", "V42", "V", "iii", "viidim6", "V65", "iii6",
             "I64", "V6", "V7", "viidim">> @@
  "iii" :> <<"ii", "vi", "IV6", "ii6", "IV">> @@
  "iii6" :> <<"ii", "vi", "IV6", "vi6">> @@
  "IV" :> <<"I", "I64", "V7", "V">> @@
  "IV6" :> <<"I", "I6", "V">> @@
  "V" :> <<"I", "vi", "IV6">> @@
  "V6" :> <<"I", "iii", "I6">> @@
  "V7" :> <<"I", "vi", "IV6">> @@
  "V65" :> <<"I", "vi", "IV6">> @@
  "V43" :> <<"vi", "iii", "I6">> @@
  "V42" :> <<"I", "V", "I6">> @@
  "vi" :> <<"ii", "ii6", "IV">> @@
  "vi6" :> <<"ii", "ii6", "IV">> @@
  "viidim" :> <<"V", "iii", "I6">> @@
  "viidim6" :> <<"I", "iii6", "I6">>

\* The pairs of a row in a given order of its keys.
ItemsInOrder(row, order) ==
  [i \in 1..Len(order) |->
     row[CHOOSE j \in 1..Len(row) : row[j][1] = order[i]]]

\* The shipped table as .items() lists it where dicts keep the order of
\* insertion, and where they keep the order of ITEMS_ORDER.
ShippedTables ==
  {MAJOR_MARKOV_PROGRESSION_MODEL,
   [source \in DOMAIN MAJOR_MARKOV_PROGRESSION_MODEL |->
      ItemsInOrder(MAJOR_MARKOV_PROGRESSION_MODEL[source], ITEMS_ORDER[source])]}

\* The tables next_state is applied to.
Models == ShippedTables \cup {DEFICIENT_MODEL}

\* A double in [0, 1] is a whole number of units of 2^-58, kept as
\* <<hi, lo>> for hi * 2^29 + lo: every share of the tables is at least
\* 2^-6, so its double is a multiple of 2^-58, and so are the draws
\* (multiples of 2^-53) and the differences of such numbers.
LIMB == 2^29

\* The double that a share written in the source denotes (.05 is the double
\* nearest to 5/100), by thousandths.
DOUBLE ==
  25 :> <<13421772, 429496730>> @@
  50 :> <<26843545, 322122548>> @@
  75 :> <<40265318, 214748364>> @@
  100 :> <<53687091, 107374184>> @@
  150 :> <<80530636, 429496728>> @@
  200 :> <<107374182, 214748368>> @@
  250 :> <<134217728, 0>> @@
  300 :> <<161061273, 322122544>> @@
  350 :> <<187904819, 107374176>> @@
  400 :> <<214748364, 429496736>> @@
  500 :> <<268435456, 0>> @@
  600 :> <<322122547, 107374176>> @@
  650 :> <<348966092, 429496736>> @@
  900 :> <<483183820, 429496736>> @@
  1000 :> <<536870912, 0>>

\* value > rand on doubles.
DoubleGt(value, rand) ==
  value[1] > rand[1] \/ (value[1] = rand[1] /\ value[2] > rand[2])

\* The double nearest to a number of units, ties to even: a double keeps 53
\* bits, so a number of 2^53 units or more loses its lowest bits.
DoubleRound(x) ==
  LET q == IF x[1] < 2^24 THEN 1
           ELSE IF x[1] < 2^25 THEN 2
           ELSE IF x[1] < 2^26 THEN 4
           ELSE IF x[1] < 2^27 THEN 8
           ELSE IF x[1] < 2^28 THEN 16
           ELSE IF x[1] < 2^29 THEN 32
           ELSE 64
      rem == x[2] % q
      down == <<x[1], x[2] - rem>>
      up == IF x[2] - rem + q = LIMB THEN <<x[1] + 1, 0>>
            ELSE <<x[1], x[2] - rem + q>>
  IN  IF 2 * rem < q THEN down
      ELSE IF 2 * rem > q THEN up
      ELSE IF ((x[2] - rem) \div q) % 2 = 0 THEN down
      ELSE up

\* rand - value on doubles, for value <= rand.
DoubleSub(rand, value) ==
  DoubleRound(IF rand[2] >= value[2]
              THEN <<rand[1] - value[1], rand[2] - value[2]>>
              ELSE <<rand[1] - value[1] - 1, rand[2] - value[2] + LIMB>>)

\* The largest value of random.random(): 1 - 2^-53 (0.9999999999999999).
LARGEST_DRAW == <<LIMB - 1, LIMB - 32>>

\* random.random(): a double in [0, 1), a multiple of 2^-53.  The places
\* where the walk passes from one item to the next are within a few units
\* of multiples of 0.025 (every share is one); each stretch between two
\* multiples of 0.025 holds a multiple of 1/64 that is not a multiple of
\* 0.025, so the draws j/64 give every item the walk can return, and the
\* largest draw gives what the walk does at the end of the unit.
Draws == {<<j * 2^23, 0>> : j \in 0..63} \cup {LARGEST_DRAW}

\* What the walk of next_state yields when the loop ends without a return.
FELL_THROUGH == "<fell through>"

\* The for loop of next_state over markov_model[current_state].items(),
\* from the i-th item on; rest is rand after rand -= value.
RECURSIVE Walk(_, _, _)
Walk(items, i, rand) ==
  IF i > Len(items) THEN FELL_THROUGH
  ELSE IF DoubleGt(DOUBLE[items[i][2]], rand) THEN items[i][1]
  ELSE CHOOSE key \in {Walk(items, i + 1, rest) :
                         rest \in {DoubleSub(rand, DOUBLE[items[i][2]])}} : TRUE

\* The key the loop of next_state returns, or FELL_THROUGH when control
\* reaches the line that builds the error string.
NextStateKey(markov_model, current_state, rand) ==
  IF DOMAIN markov_model # {} /\ current_state \in DOMAIN markov_model
  THEN Walk(markov_model[current_state], 1, rand)
  ELSE FELL_THROUGH

\* next_state raises: "ERROR:" + None is a TypeError.
next_state_raises(markov_model, current_state, rand) ==
  /\ NextStateKey(markov_model, current_state, rand) = FELL_THROUGH
  /\ current_state = NONE

\* next_state (when it does not raise).
next_state(markov_model, current_state, rand) ==
  LET k == NextStateKey(markov_model, current_state, rand)
  IN  IF k = FELL_THROUGH
      THEN "ERROR:" \o current_state \o " NOT IN MODEL"
      ELSE k

\* A pop that leaves the list as it is.
PopNothing(lst) == lst

\* progression.pop(): the list without its last item.
Pop(lst) == SubSeq(lst, 1, Len(lst) - 1)

\* ------------------------------------------------------------------------
\* Bounds and inputs
\* ------------------------------------------------------------------------

\* The longest label sequence handed to get_chord_progression.
MaxLen == 3

\* The number of labels of run's progression that the model records; later
\* labels are sampled but only the last one is kept.
MaxProg == 4

\* The longest state name from which the loop of run samples again.
MaxNameLen == 40

\* The labels of the input sequences: triads of the major key, a seventh
\* chord, and "Q", which is not a roman numeral of the table.
Labels == {"I", "V", "V7", "viidim", "Q"}

\* The keys: C (the key run uses), and G## and A##, for which some chord
\* member has no spelling in PITCH_MAPPING.
Keys == {"C", "G##", "A##"}

Progressions == UNION {[1..n -> Labels] : n \in 0..MaxLen}

\* ------------------------------------------------------------------------
\* State
\* ------------------------------------------------------------------------

VARIABLES
  pc,           \* where the running function is
  key,          \* the key of the progression
  is_major,     \* the mode
  progression,  \* the label sequence (the input of get_chord_progression,
                \* the local of run)
  chords,       \* the chords list of get_chord_progression; what it returned
  call,         \* the locals of the latest get_next_chord call
  markov,       \* the transition table of the sampling loop
  last,         \* progression[-1] of run
  truncated     \* run's progression has labels the model did not record

vars == <<pc, key, is_major, progression, chords, call, markov, last, truncated>>

\* No get_next_chord call yet.
NO_CALL ==
  [raised |-> FALSE, needed_chord_notes |-> <<>>, all_perms |-> <<>>,
   poss_chords |-> <<>>, evaluations |-> <<>>, min_index |-> 0]

\* No transition table (get_chord_progression called directly).
NO_MODEL == <<>>

\* ------------------------------------------------------------------------
\* get_chord_progression(progression, key, is_major), step by step
\* ------------------------------------------------------------------------

Init ==
  /\ pc = "first"
  /\ key \in Keys
  /\ is_major \in BOOLEAN
  /\ progression \in Progressions
  /\ chords = <<>>
  /\ call = NO_CALL
  /\ markov = NO_MODEL
  /\ last = NONE
  /\ truncated = FALSE

\* chords = []; last_chord = get_first_chord(key, is_major); append.
FirstChord ==
  /\ pc = "first"
  /\ LET first == get_first_chord(key, is_major)
     IN  IF first.raised
         THEN /\ pc' = "raised"
              /\ chords' = <<>>
         ELSE /\ pc' = "loop"
              /\ chords' = <<first.chord>>
  /\ UNCHANGED <<key, is_major, progression, call, markov, last, truncated>>

\* One iteration of `for numeral in progression[1:]`: each iteration
\* appends one chord to the opening chord, so the next numeral is the
\* Len(chords)-th of the slice.
NextChord ==
  /\ pc = "loop"
  /\ Len(chords) <= Len(LoopNumerals(progression))
  /\ \E step \in {ProgressionStep(chords[Len(chords)],
                                  LoopNumerals(progression)[Len(chords)], key)} :
         /\ call' = step
         /\ IF step.raised
            THEN /\ pc' = "raised"
                 /\ chords' = <<>>
            ELSE /\ pc' = "loop"
                 /\ chords' = Append(chords, step.poss_chords[step.min_index])
  /\ UNCHANGED <<key, is_major, progression, markov, last, truncated>>

\* return chords
Return ==
  /\ pc = "loop"
  /\ Len(chords) > Len(LoopNumerals(progression))
  /\ pc' = "returned"
  /\ UNCHANGED <<key, is_major, progression, chords, call, markov, last, truncated>>

Next == FirstChord \/ NextChord \/ Return

Spec == Init /\ [][Next]_vars

\* ------------------------------------------------------------------------
\* get_chord_progression in key "C" over progressions of any length.  The
\* state keeps what the loop still reads, the latest chord: is_major is
\* cleared once get_first_chord has read it, progression and the earlier
\* chords are not recorded (truncated), and the locals of a get_next_chord
\* call are recorded only when the call raised.
\* ------------------------------------------------------------------------

InitAny ==
  /\ pc = "first"
  /\ key = "C"
  /\ is_major \in BOOLEAN
  /\ progression = <<>>
  /\ chords = <<>>
  /\ call = NO_CALL
  /\ markov = NO_MODEL
  /\ last = NONE
  /\ truncated = FALSE

\* chords = []; last_chord = get_first_chord(key, is_major); append.
FirstChordAny ==
  /\ pc = "first"
  /\ LET first == get_first_chord(key, is_major)
     IN  IF first.raised
         THEN /\ pc' = "raised"
              /\ chords' = <<>>
         ELSE /\ pc' = "loop"
              /\ chords' = <<first.chord>>
  /\ is_major' = FALSE
  /\ UNCHANGED <<key, progression, call, markov, last, truncated>>

\* One iteration of `for numeral in progression[1:]` for a numeral of
\* ROMAN_NUMERAL_TO_QUALITY: last_chord = get_next_chord(...); append.
NextChordAny ==
  /\ pc = "loop"
  /\ \E numeral \in DOMAIN ROMAN_NUMERAL_TO_QUALITY :
       \E step \in {ProgressionStep(chords[Len(chords)], numeral, key)} :
         /\ truncated' = TRUE
         /\ IF step.raised
            THEN /\ pc' = "raised"
                 /\ call' = step
                 /\ chords' = <<>>
            ELSE /\ pc' = "loop"
                 /\ call' = NO_CALL
                 /\ chords' = <<step.poss_chords[step.min_index]>>
  /\ UNCHANGED <<key, is_major, progression, markov, last>>

NextAny == FirstChordAny \/ NextChordAny

SpecAny == InitAny /\ [][NextAny]_vars

\* ------------------------------------------------------------------------
\* run(is_major): the sampling loop and the call of get_chord_progression
\* ------------------------------------------------------------------------

\* progression.append(label), recording at most MaxProg labels.
Record(label) ==
  IF Len(progression) < MaxProg
  THEN /\ progression' = Append(progression, label)
       /\ truncated' = truncated
  ELSE /\ progression' = progression
       /\ truncated' = TRUE

\* progression = [next_state(markov, None)].  With is_major false, markov
\* is never assigned and reading it raises.
RunFirst ==
  /\ pc = "run"
  /\ \E rand \in Draws :
       IF ~is_major \/ next_state_raises(markov, NONE, rand)
       THEN /\ pc' = "raised"
            /\ UNCHANGED <<progression, last, truncated>>
       ELSE /\ pc' = "sampling"
            /\ last' = next_state(markov, NONE, rand)
            /\ Record(next_state(markov, NONE, rand))
  /\ UNCHANGED <<key, is_major, chords, call, markov>>

\* One iteration of `while (progression[-1] != None)` with the draw rand.
Sample(rand) ==
  /\ pc = "sampling"
  /\ last # NONE
  /\ Len(last) <= MaxNameLen
  /\ last' = next_state(markov, last, rand)
  /\ Record(next_state(markov, last, rand))
  /\ UNCHANGED <<pc, key, is_major, chords, call, markov>>

RunSample == \E rand \in Draws : Sample(rand)

\* The loop has ended with the end marker drawn: progression.pop().  The
\* end marker is the last label recorded unless labels were dropped.
RunPop ==
  /\ pc = "sampling"
  /\ last = NONE
  /\ pc' = "build"
  /\ progression' = IF truncated THEN progression ELSE Pop(progression)
  /\ UNCHANGED <<key, is_major, chords, call, markov, last, truncated>>

\* key = "C" and chords = get_chord_progression(progression, key, is_major).
\* When labels were dropped no chords are built.
RunBuild ==
  /\ pc = "build"
  /\ IF truncated
     THEN /\ chords' = <<>>
          /\ pc' = "done"
     ELSE \E built \in {get_chord_progression(progression, "C", is_major)} :
              /\ chords' = built.chords
              /\ pc' = IF built.raised THEN "raised" ELSE "done"
  /\ UNCHANGED <<key, is_major, progression, call, markov, last, truncated>>

InitRun ==
  /\ pc = "run"
  /\ key = "C"
  /\ is_major \in BOOLEAN
  /\ progression = <<>>
  /\ chords = <<>>
  /\ call = NO_CALL
  /\ markov \in ShippedTables
  /\ last = NONE
  /\ truncated = FALSE

NextRun == RunFirst \/ RunSample \/ RunPop \/ RunBuild

SpecRun == InitRun /\ [][NextRun]_vars

\* The loop iteration that draws a label of the set S.
RunSampleInto(S) == \E rand \in Draws : Sample(rand) /\ last' \in S

\* The labels that appear as successors in a table.
SuccessorLabels(markov_model) ==
  UNION {{markov_model[s][i][1] : i \in 1..Len(markov_model[s])} :
           s \in DOMAIN markov_model}

\* Labels on the way to the end marker, by the number of draws they are
\* from it: the end marker itself (drawn from "I"), "I", and successors that
\* have "I" as a successor.  Every state of the shipped table but "V43" has
\* one of the last group as a successor.
FairLabels == {{NONE}, {"I"}, {"IV", "V", "IV6"}}

\* The program goes on while it can, and the random source is fair: of the
\* labels with a positive share in the rows of the states the loop keeps
\* returning to, one is eventually drawn.  (Stated for FairLabels only; the
\* fairness of the other draws is not needed.)
FairRun ==
  /\ SpecRun
  /\ WF_vars(RunFirst \/ RunSample \/ RunPop)
  /\ \A S \in FairLabels : SF_vars(RunSampleInto(S))

\* The sampling loop of run over a table handed to next_state.
InitTable ==
  /\ pc = "run"
  /\ key = "C"
  /\ is_major = TRUE
  /\ progression = <<>>
  /\ chords = <<>>
  /\ call = NO_CALL
  /\ markov \in Models
  /\ last = NONE
  /\ truncated = FALSE

SpecTable == InitTable /\ [][NextRun]_vars

\* ------------------------------------------------------------------------
\* Properties
\* ------------------------------------------------------------------------

\* The items of a list.
Items(lst) == {lst[i] : i \in 1..Len(lst)}

\* The MIDI number of a note lies between those of two notes.
Within(note, low_name, low_octave, high_name, high_octave) ==
  /\ get_midi_number(Note(low_name, low_octave)) <= get_midi_number(note)
  /\ get_midi_number(note) <= get_midi_number(Note(high_name, high_octave))

\* C1: every chord of a returned sequence has its bass within D2..C4, its
\* tenor within D3..F4, its alto within A3..D5 and its soprano within
\* D4..G5, and the interval signature of its notes relative to the bass is
\* the CHORD_QUALITY_TO_STRUCTURE entry of its quality.
C1_ReturnedChordsValid ==
  pc = "returned" =>
    \A i \in 1..Len(chords) :
      /\ Within(chords[i].bass, "D", 2, "C", 4)
      /\ Within(chords[i].tenor, "D", 3, "F", 4)
      /\ Within(chords[i].alto, "A", 3, "D", 5)
      /\ Within(chords[i].sopr, "D", 4, "G", 5)
      /\ chords[i].quality \in DOMAIN CHORD_QUALITY_TO_STRUCTURE
      /\ get_chord_number(get_notes(chords[i]))
           = CHORD_QUALITY_TO_STRUCTURE[chords[i].quality]

\* A three-chord sequence with a seventh chord chosen by get_next_chord has
\* been returned.
C1_Witness ==
  /\ pc = "returned"
  /\ Len(chords) = 3
  /\ chords[2].quality = "Dom7"

\* C2: the chord get_next_chord returns is the candidate at min_index, its
\* evaluate_progression score against the current chord is the least among
\* the candidates, and every candidate before it scores strictly more.
C2_SelectsFirstMinimum ==
  (pc \in {"loop", "returned"} /\ Len(chords) >= 2) =>
    LET current_chord == chords[Len(chords) - 1]
        score(j) == evaluate_progression(current_chord, call.poss_chords[j], key)
        m == call.min_index
    IN  /\ m \in 1..Len(call.poss_chords)
        /\ chords[Len(chords)] = call.poss_chords[m]
        /\ \A j \in 1..Len(call.poss_chords) : score(m) <= score(j)
        /\ \A j \in 1..(m - 1) : score(j) > score(m)

\* get_next_chord has returned a chord that a different, later candidate
\* ties with.
C2_Witness ==
  /\ pc \in {"loop", "returned"}
  /\ Len(chords) >= 2
  /\ \E j \in 1..Len(call.poss_chords) :
       /\ j > call.min_index
       /\ call.evaluations[j] = call.evaluations[call.min_index]
       /\ call.poss_chords[j] # call.poss_chords[call.min_index]

\* The in-range candidates of get_nearest_note.
InRangeCandidates(current_note, next_note_name, min_note, max_note) ==
  {n \in Items(PossNotes(current_note, next_note_name)) :
     NoteGe(n, min_note) /\ NoteLe(n, max_note)}

\* The note is, among the in-range candidates, one of least get_interval
\* distance to the reference, and the lowest-octave one of those.
IsNearest(note, current_note, min_note, max_note) ==
  LET cands == InRangeCandidates(current_note, note.note_name, min_note, max_note)
  IN  /\ note \in cands
      /\ \A c \in cands :
           /\ get_interval(note, current_note) <= get_interval(c, current_note)
           /\ get_interval(note, current_note) = get_interval(c, current_note)
                => note.octave <= c.octave

\* C3: the note get_nearest_note returns is the in-range candidate of the
\* smallest get_interval distance to the reference, the lowest-octave one
\* on ties; stated of the bass get_next_chord finds from the current bass.
C3_NearestIsClosest ==
  (pc \in {"loop", "returned"} /\ Len(chords) >= 2) =>
    IsNearest(chords[Len(chords)].bass, chords[Len(chords) - 1].bass,
              BASS_REGISTER_MIN, BASS_REGISTER_MAX)

\* C4: get_chord_progression does not return when some label of the input,
\* at any position, is not a key of ROMAN_NUMERAL_TO_QUALITY.
C4_UnknownLabelFails ==
  (\E i \in 1..Len(progression) :
      progression[i] \notin DOMAIN ROMAN_NUMERAL_TO_QUALITY)
    => pc # "returned"

\* C7: get_chord_progression(["I", "V", "I"], "C", True) returns exactly
\* three chords, none with a voice crossing or an octave gap.
C7_TonicDominantTonic ==
  (pc = "returned" /\ progression = <<"I", "V", "I">> /\ key = "C" /\ is_major) =>
    /\ Len(chords) = 3
    /\ \A i \in 1..Len(chords) :
         ~has_voice_crossing(chords[i]) /\ ~has_octave_gap(chords[i])

\* get_chord_progression(["I", "V", "I"], "C", True) has returned.
C7_Witness ==
  /\ pc = "returned"
  /\ progression = <<"I", "V", "I">>
  /\ key = "C"
  /\ is_major
  /\ chords # <<>>

\* C8 as stated: the list of upper-voice assignments get_next_chord builds
\* has 6 entries when 3 names are needed (a seventh chord) and 36 entries
\* when 2 names are needed (a triad).
C8_CandidateCountsAsStated ==
  (pc \in {"loop", "returned", "raised"} /\ call # NO_CALL) =>
    /\ Len(call.needed_chord_notes) = 3 => Len(call.all_perms) = 6
    /\ Len(call.needed_chord_notes) = 2 => Len(call.all_perms) = 36

\* C8, amended: the list of upper-voice assignments get_next_chord builds
\* has 6 entries when 3 names are needed (a seventh chord) and 18 entries
\* (3 members to double, 2 orders of the needed names, 3 positions) when 2
\* names are needed (a triad).
C8_CandidateCounts ==
  (pc \in {"loop", "returned", "raised"} /\ call # NO_CALL) =>
    /\ Len(call.needed_chord_notes) = 3 => Len(call.all_perms) = 6
    /\ Len(call.needed_chord_notes) = 2 => Len(call.all_perms) = 18

\* get_next_chord has listed the assignments of a triad after it had listed
\* those of a seventh chord.
C8_Witness ==
  /\ pc \in {"loop", "returned"}
  /\ Len(chords) = 3
  /\ chords[2].quality = "Dom7"
  /\ Len(call.needed_chord_notes) = 2
  /\ call.all_perms # <<>>

\* C9: a chord compared with itself has no parallels and no leap cost.
C9_NoParallelsWithItself ==
  \A i \in 1..Len(chords) :
    /\ ~has_parallels(chords[i], chords[i])
    /\ evaluate_leaps(chords[i], chords[i]) = 0

\* The sum of the shares of a row.
RECURSIVE RowSum(_, _)
RowSum(items, i) ==
  IF i > Len(items) THEN 0 ELSE items[i][2] + RowSum(items, i + 1)

\* The labels one draw away from a state of a table: what next_state
\* returns for it.
Successors(markov_model, state) ==
  {next_state(markov_model, state, rand) :
     rand \in {r \in Draws : ~next_state_raises(markov_model, state, r)}}

\* The states of a table with a successor in a set.
StepsInto(step, states) ==
  {state \in DOMAIN step : step[state] \cap states # {}}

\* The states from which one or more draws lead into a set.
RECURSIVE LeadsInto(_, _)
LeadsInto(step, states) ==
  LET more == states \cup StepsInto(step, states)
  IN  IF more = states THEN states ELSE LeadsInto(step, more)

\* For each table, the states from which some sequence of draws leads to
\* the end marker.  A label that is no state of the table has only such
\* labels after it, so it is not one of them.
EndReachable ==
  [markov_model \in Models |->
     LET step == [state \in DOMAIN markov_model |->
                    Successors(markov_model, state)]
     IN  LeadsInto(step, StepsInto(step, {NONE}))]

\* C5: with the shipped table and a fair random source, the sampling loop of
\* run eventually draws the end marker and stops; from every state the loop
\* visits some sequence of draws leads to the end marker; and the label
\* sequence that is left after the loop does not contain the end marker.
C5_SamplingTerminates ==
  /\ [](pc \in {"run", "sampling"} => last \in EndReachable[markov])
  /\ [](pc \in {"build", "done", "raised"} => NONE \notin Items(progression))
  /\ <>(pc \in {"build", "done", "raised"} /\ (is_major => last = NONE))

\* C6: with a table whose rows each sum to less than 1.0, a label that
\* next_state returns to the sampling loop of run is a label of the table
\* or the end marker, also when the draw is not covered by the shares.
C6_SampledLabelInTable ==
  (/\ pc = "sampling"
   /\ \A source \in DOMAIN markov : RowSum(markov[source], 1) < 1000) =>
    last \in SuccessorLabels(markov) \cup DOMAIN markov \cup {NONE}

\* C10: the successor shares of every source of the shipped table sum to
\* exactly 1.0 (1000 thousandths).
C10_SharesSumToOne ==
  \A source \in DOMAIN markov : RowSum(markov[source], 1) = 1000

\* Two distinct voice positions keep an interval of 0 or 7 from chord1 to
\* chord2.
KeepsFifthOrOctave(chord1, chord2) ==
  LET notes1 == get_notes(chord1)
      notes2 == get_notes(chord2)
  IN  \E i \in 1..4 : \E j \in 1..4 :
        /\ i # j
        /\ get_interval(notes1[i], notes1[j]) = get_interval(notes2[i], notes2[j])
        /\ get_interval(notes1[i], notes1[j]) \in {0, 7}

\* The chords get_next_chord compares: the chords built so far and the
\* candidates of the latest call.
ComparedChords ==
  Items(chords) \cup (IF call.raised THEN {} ELSE Items(call.poss_chords))

\* C11: has_parallels(chord1, chord2) is true exactly when two distinct
\* voice positions are at the same get_interval in chord1 and in chord2 and
\* that interval is 0 or 7, two voices on the identical note in chord1
\* included.
C11_ParallelsCharacterised ==
  \A chord1 \in Items(chords) : \A chord2 \in ComparedChords :
    has_parallels(chord1, chord2) <=> KeepsFifthOrOctave(chord1, chord2)

\* C12: in key "C", for every chord get_chord_progression can reach and
\* every label of ROMAN_NUMERAL_TO_QUALITY as the next chord, get_next_chord
\* raises no error: the bass and every candidate's voices are found in
\* range, every entry of all_perms yields a chord that passes Chord's
\* checks, and the candidate list is not empty.
C12_NextChordNeverRaises == (pc # "raised") /\ ~call.raised

\* The current chord is a III chord that get_next_chord voiced from a
\* chord it had voiced itself (I, I, III after the opening chord).
C12_Witness ==
  /\ pc = "loop"
  /\ truncated
  /\ ~call.raised
  /\ chords = <<Chord(<<Note("Eb", 3), Note("Eb", 4), Note("Bb", 4), Note("G", 5)>>,
                      "Maj")>>

\* Every successor label of the table other than the end marker is a source
\* of the table and a key of ROMAN_NUMERAL_TO_QUALITY.
TablesClosed(markov_model) ==
  (SuccessorLabels(markov_model) \ {NONE})
    \subseteq (DOMAIN markov_model \cap DOMAIN ROMAN_NUMERAL_TO_QUALITY)

\* C13: with the shipped table, every successor label other than the end
\* marker is a source of the table and a key of ROMAN_NUMERAL_TO_QUALITY, the
\* sampling loop of run never samples from a state that is no source of the
\* table, and the label sequence never holds a label that
\* get_chord_progression cannot look up.
C13_StatesClosed ==
  /\ TablesClosed(markov)
  /\ pc = "sampling" => last \in DOMAIN markov
  /\ pc \in {"sampling", "build", "done"} =>
       \A label \in Items(progression) :
         label = NONE \/ label \in DOMAIN ROMAN_NUMERAL_TO_QUALITY

\* C14: with the shipped table, every label sequence the sampling loop of
\* run has finished is non-empty, starts with "I" and ends with "I": the
\* start marker only moves to "I", and the end marker is only drawn from
\* state "I".
C14_StartsAndEndsOnTonic ==
  /\ [](pc \in {"build", "done"} =>
          /\ progression # <<>>
          /\ progression[1] = "I"
          /\ ~truncated => progression[Len(progression)] = "I")
  /\ [][(pc = "run" /\ pc' = "sampling") => last' = "I"]_vars
  /\ [][(pc = "sampling" /\ last # NONE /\ last' = NONE) => last = "I"]_vars

\* A finished sequence that moved away from "I" and came back before the
\* end marker was drawn.
C14_Witness ==
  /\ pc = "done"
  /\ ~truncated
  /\ last = NONE
  /\ Len(progression) >= 3
  /\ progression[2] # "I"

====
